---- MODULE Spec2Model ----
(***************************************************************************)
(* Model of the price-feed client's submission engine (OracleUpdater), the *)
(* aggregation cron that feeds it, and the unique_prices table they share. *)
(*                                                                         *)
(* Time is counted in aggregation periods: window number w stands for the  *)
(* window whose window_start is the w-th value of Date.now() - 10000.      *)
(* Every await of the source is a point where other callbacks may run, so  *)
(* every handler is cut into one action per await that touches shared      *)
(* state (the table, the cursor, the ledger).  Consecutive awaits that     *)
(* touch the same party only (getAccount and simulateTransaction;          *)
(* prepareTransaction and sendTransaction) form one action, and a query is *)
(* answered in the step that issues it.  Nothing keeps a second callback   *)
(* of setInterval or of cron.schedule from starting while the first one    *)
(* is at an await, so several invocations may be in flight.                *)
(*                                                                         *)
(* The ledger answers are inputs: every response the RPC client can give   *)
(* (a rejected promise, an error, PENDING, NOT_FOUND, SUCCESS, FAILED) is  *)
(* chosen nondeterministically.  confirmed, sentTxs, lastWindow and ev     *)
(* are history variables; no action reads them, except that a transaction  *)
(* takes its hash from the number of transactions sent before it.          *)
(***************************************************************************)
EXTENDS Integers, Sequences, FiniteSets, TLC

\* ---------------------------------------------------------------- bounds
MaxRows == 3          \* ids handed out by the unique_prices SERIAL column
MaxWindows == 2       \* firings of the aggregation cron
MaxPrices == 2        \* distinct prices found in one window
MaxRestarts == 1      \* process crashes followed by a restart
MaxTicks == 2         \* checkAndUpdate invocations that may be in flight
MaxTxs == 2           \* transactions handed to the ledger
MaxClients == 2       \* sockets that connect to the broadcast server

\* ------------------------------------------------- program constants
\* LIMIT 100 of the polling query, scaled down so that a batch boundary
\* can fall inside a window within the bounds above.
BatchLimit == 2
\* `attempts < 30` of the confirmation loop, scaled down.
MaxPollAttempts == 2
\* process.env.SYMBOL, upper-cased by the aggregation cron.
Symbol == "XLMUSDT"
\* transaction_hash VARCHAR(100) without a value: NULL (hashes are 1, 2, ...)
Null == 0
\* `private lastProcessedId: number = 0`
InitialLastProcessedId == 0
\* `private lastBroadcastPrice: string = ""`: no price is the empty text
NoPrice == 0
\* `private lastBroadcastSecond: number = 0`
InitialBroadcastSecond == 0

VARIABLES
    rows,            \* the unique_prices table: set of row records
    nextId,          \* next value of the SERIAL sequence of unique_prices.id
    now,             \* number of aggregation cron firings so far (the clock)
    aggs,            \* aggregation callbacks between their SELECT and their INSERT
    phase,           \* "new": constructed, start() not finished; "running"
    lastProcessedId, \* OracleUpdater.lastProcessedId, the submission cursor
    ticks,           \* checkAndUpdate invocations: slot -> position and locals
    confirmed,       \* ledger: (symbol, window_start) keys confirmed SUCCESS
    sentTxs,         \* ledger: transactions handed to sendTransaction
    lastWindow,      \* history: window_start of the last updateContract call
    restarts,        \* number of crashes so far
    ev,              \* history: what the last step did
    trades,          \* the trades table: set of trade records
    inserts,         \* insertTrade calls in flight: trade and attempt number
    calls,           \* number of insertTrade calls made so far
    wins,            \* insertUniquePriceWindow calls holding a connection
    sweep,           \* position of the cleanup cron callback
    ret,             \* history: what the last database call returned
    resultRows,      \* result.rows of one polling query, before it is grouped
    pricesByWindow,  \* the Map built from resultRows, as the sequence of its values
    ws,              \* PriceFeedClient.ws: number of the socket, 0 for null
    sockets,         \* the sockets made so far: the state of each
    shouldReconnect, \* PriceFeedClient.shouldReconnect
    timers,          \* pending setTimeout callbacks: the delay of each
    started,         \* start() has been called
    received,        \* number of messages received
    handling,        \* message handlers waiting for insertTrade
    delivered,       \* history: trades that reached onTradeCallback
    signals,         \* number of signals delivered
    handlers,        \* signal handlers run: the signal and their pool.end()
    closeCalls,      \* history: number of closeDatabase() calls
    pool,            \* the pg Pool: "open", "ending" or "ended"
    exit,            \* "running", or how the process ended
    issued,          \* number of periodic callbacks run
    lastOp,          \* history: the database call of the last periodic callback
    dbOps,           \* calls of the functions that use pool.connect()
    checkedOut,      \* connections checked out of the pool
    lastBroadcastSecond, \* TradeBroadcastServer.lastBroadcastSecond
    lastBroadcastPrice,  \* TradeBroadcastServer.lastBroadcastPrice
    clients,         \* TradeBroadcastServer.clients: the state of each socket
    messages,        \* history: the last two messages broadcast
    bcast            \* history: the last call of broadcast()

\* The variables of the trade store, which the engine never touches.
storeVars == <<trades, inserts, calls, wins, sweep, ret>>

\* The variables of the submission engine, which the store never touches.
engineVars == <<aggs, phase, lastProcessedId, ticks, confirmed, sentTxs,
                lastWindow, restarts, ev>>

\* The variables of the grouping loop taken on its own.
groupVars == <<resultRows, pricesByWindow>>

\* The variables of the ingestion client taken on its own.
clientVars == <<ws, sockets, shouldReconnect, timers, started, received,
                handling, delivered>>

\* The variables of the shutdown of the process.
shutdownVars == <<signals, handlers, closeCalls, pool, exit, issued, lastOp>>

\* The variables of the connection pool.
poolVars == <<dbOps, checkedOut>>

\* The variables of the broadcast server.
broadcastVars == <<lastBroadcastSecond, lastBroadcastPrice, clients, messages,
                   bcast>>

\* The variables of the parts that are modelled one at a time, which neither
\* the engine nor the store touches.
partVars == <<groupVars, clientVars, shutdownVars, poolVars, broadcastVars>>

vars == <<rows, nextId, now, aggs, phase, lastProcessedId, ticks, confirmed,
          sentTxs, lastWindow, restarts, ev, trades, inserts, calls, wins,
          sweep, ret, resultRows, pricesByWindow, ws, sockets, shouldReconnect,
          timers, started, received, handling, delivered, signals, handlers,
          closeCalls, pool, exit, issued, lastOp, dbOps, checkedOut,
          lastBroadcastSecond, lastBroadcastPrice, clients, messages, bcast>>

Slots == 1..MaxTicks

\* ------------------------------------------------------------- helpers
Max(a, b) == IF a >= b THEN a ELSE b

MaxOf(S) == CHOOSE x \in S : \A y \in S : y <= x

\* ORDER BY window_start ASC, id ASC
RowLess(r, s) == r.window_start < s.window_start
                 \/ (r.window_start = s.window_start /\ r.id < s.id)

RECURSIVE OrderRows(_)
OrderRows(S) ==
    IF S = {} THEN <<>>
    ELSE LET first == CHOOSE r \in S : \A s \in S \ {r} : RowLess(r, s)
         IN  <<first>> \o OrderRows(S \ {first})

Take(s, n) == SubSeq(s, 1, IF Len(s) < n THEN Len(s) ELSE n)

\* SELECT ... FROM unique_prices WHERE id > $1 ORDER BY window_start, id LIMIT 100
SelectBatch(table, cursor) ==
    Take(OrderRows({r \in table : r.id > cursor}), BatchLimit)

\* `${row.symbol}-${row.window_start.getTime()}`
KeyOf(r) == <<r.symbol, r.window_start>>

IndexOfKey(groups, key) ==
    IF \E i \in DOMAIN groups : KeyOf(groups[i]) = key
    THEN CHOOSE i \in DOMAIN groups : KeyOf(groups[i]) = key
    ELSE 0

AddRowKeepingMaxId(groups, row) ==
    LET i == IndexOfKey(groups, KeyOf(row))
    IN  IF i = 0
        THEN Append(groups, [symbol |-> row.symbol,
                             prices |-> <<row.price>>,
                             window_start |-> row.window_start,
                             maxId |-> row.id,
                             ids |-> {row.id}])
        ELSE [groups EXCEPT ![i] =
                 [@ EXCEPT !.prices = Append(@, row.price),
                           !.ids = @ \cup {row.id}]]

\* One iteration of the grouping loop: the Map keeps insertion order.  The
\* field ids is auxiliary (the rows the group was built from).
AddRow(groups, row) ==
    LET i == IndexOfKey(groups, KeyOf(row))
    IN  IF i = 0
        THEN Append(groups, [symbol |-> row.symbol,
                             prices |-> <<row.price>>,
                             window_start |-> row.window_start,
                             maxId |-> row.id,
                             ids |-> {row.id}])
        ELSE [groups EXCEPT ![i] =
                 [@ EXCEPT !.prices = Append(@, row.price),
                           !.maxId = Max(@, row.id),
                           !.ids = @ \cup {row.id}]]

RECURSIVE GroupFrom(_, _)
GroupFrom(groups, batch) ==
    IF batch = <<>> THEN groups
    ELSE GroupFrom(AddRow(groups, Head(batch)), Tail(batch))

\* pricesByWindow of checkAndUpdate, as the sequence of its values
PricesByWindow(batch) == GroupFrom(<<>>, batch)

Idle == [pc |-> "idle", groups |-> <<>>, attempts |-> 0, txHash |-> 0,
         batchMax |-> 0]

\* What the last step was, as far as the properties below need it.  result:
\* "simError" the simulation response carried an error, "timeout" a poll
\* answered NOT_FOUND with the attempt budget used up, "failed" updateContract
\* returned false for another reason, "true" it returned true, "-" any other
\* step.  pending: the groups of that tick behind the one that returned.
Quiet == [result |-> "-", pending |-> 0]

\* Before any database call has returned.
NoReturn == [op |-> "-", outcome |-> "-", n |-> 0]

\* Before broadcast() has been called.
NoBroadcast == [trade |-> [price |-> NoPrice, timestamp |-> 0],
                sent |-> FALSE, successCount |-> 0]

Failures == {"simError", "timeout", "failed"}

CatchesAllButUpdateContract(boundary) == boundary # "updateContract"

\* The try/catch blocks at the boundaries of a tick: the body of
\* updateContract (catch: log, return false), the body of checkAndUpdate
\* (catch: log) and the body of the aggregation callback (catch: log).
Catches(boundary) == TRUE

\* What the last step did when an exception has left its boundary.
Escaped(boundary) ==
    [Quiet EXCEPT !.result = IF boundary = "updateContract"
                             THEN "thrown" ELSE "rejected"]

\* The await of a database call at the top of a tick throws.
TickThrows(boundary) == IF Catches(boundary) THEN Quiet ELSE Escaped(boundary)


\* ----------------------------------------------------------------- Init
Init ==
    /\ rows = {}
    /\ nextId = 1
    /\ now = 0
    /\ aggs = {}
    /\ phase = "new"
    /\ lastProcessedId = InitialLastProcessedId
    /\ ticks = [t \in Slots |-> Idle]
    /\ confirmed = {}
    /\ sentTxs = {}
    /\ lastWindow = 0
    /\ restarts = 0
    /\ ev = Quiet
    /\ trades = {}
    /\ inserts = {}
    /\ calls = 0
    /\ wins = {}
    /\ sweep = "idle"
    /\ ret = NoReturn
    /\ resultRows = <<>>
    /\ pricesByWindow = <<>>
    /\ ws = 0
    /\ sockets = <<>>
    /\ shouldReconnect = TRUE
    /\ timers = <<>>
    /\ started = FALSE
    /\ received = 0
    /\ handling = 0
    /\ delivered = 0
    /\ signals = 0
    /\ handlers = <<>>
    /\ closeCalls = 0
    /\ pool = "open"
    /\ exit = "running"
    /\ issued = 0
    /\ lastOp = [kind |-> "-", outcome |-> "-", closeCalls |-> 0]
    /\ dbOps = <<>>
    /\ checkedOut = 0
    /\ lastBroadcastSecond = InitialBroadcastSecond
    /\ lastBroadcastPrice = NoPrice
    /\ clients = [c \in 1..MaxClients |-> "none"]
    /\ messages = <<>>
    /\ bcast = NoBroadcast

\* ------------------------------------------------- aggregation cron
\* cron "*/10 * * * * *" fires: now = Date.now(), windowStart = now - 10000,
\* then getUniquePricesInWindow is awaited.  n is the number of distinct
\* prices it returns (0: nothing is inserted; the query may also throw, which
\* the callback catches).  node-cron does not wait for the previous callback.
AggregationTick ==
    /\ now < MaxWindows
    /\ now' = now + 1
    /\ \E n \in 0..MaxPrices :
          aggs' = IF n > 0
                  THEN aggs \cup {[window_start |-> now + 1, n |-> n]}
                  ELSE aggs
    /\ ev' = Quiet
    /\ UNCHANGED <<rows, nextId, phase, lastProcessedId, ticks, confirmed,
                   sentTxs, lastWindow, restarts>>
    /\ UNCHANGED storeVars
    /\ UNCHANGED partVars

\* The rows one insertUniquePriceWindow call writes: prices in ascending
\* order (ORDER BY price), ids from the sequence, transaction_hash NULL.
NewRows(a, firstId) ==
    { [id |-> firstId + i - 1, symbol |-> Symbol, price |-> i,
       window_start |-> a.window_start, transaction_hash |-> Null]
      : i \in 1..a.n }

\* insertUniquePriceWindow: BEGIN, one INSERT per price, COMMIT.
InsertUniquePriceWindowCommit(a) ==
    /\ a \in aggs
    /\ nextId + a.n - 1 <= MaxRows
    /\ rows' = rows \cup NewRows(a, nextId)
    /\ nextId' = nextId + a.n
    /\ aggs' = aggs \ {a}
    /\ ev' = Quiet
    /\ UNCHANGED <<now, phase, lastProcessedId, ticks, confirmed, sentTxs,
                   lastWindow, restarts>>
    /\ UNCHANGED storeVars
    /\ UNCHANGED partVars

\* insertUniquePriceWindow: a statement fails after k rows, ROLLBACK, rethrow
\* (caught by the cron callback).  The k sequence values stay consumed.
InsertUniquePriceWindowRollback(a) ==
    /\ a \in aggs
    /\ \E k \in 0..(a.n - 1) :
          /\ nextId + k - 1 <= MaxRows
          /\ nextId' = nextId + k
    /\ aggs' = aggs \ {a}
    /\ ev' = TickThrows("aggregation")
    /\ UNCHANGED <<rows, now, phase, lastProcessedId, ticks, confirmed,
                   sentTxs, lastWindow, restarts>>
    /\ UNCHANGED storeVars
    /\ UNCHANGED partVars

\* ------------------------------------------------------ start / restart
MaxRowId(table) == IF table = {} THEN 0 ELSE MaxOf({r.id : r \in table})

\* SELECT MAX(id) as max_id FROM unique_prices; `result.rows[0]?.max_id || 0`
LoadedId(table) == MaxRowId(table)

\* start(): await loadLastProcessedId(), the query succeeds; setInterval.
LoadLastProcessedIdOk ==
    /\ phase = "new"
    /\ lastProcessedId' = LoadedId(rows)
    /\ phase' = "running"
    /\ ev' = Quiet
    /\ UNCHANGED <<rows, nextId, now, aggs, ticks, confirmed, sentTxs,
                   lastWindow, restarts>>
    /\ UNCHANGED storeVars
    /\ UNCHANGED partVars

\* start(): the query of loadLastProcessedId throws; the catch only logs.
LoadLastProcessedIdFail ==
    /\ phase = "new"
    /\ phase' = "running"
    /\ ev' = Quiet
    /\ UNCHANGED <<rows, nextId, now, aggs, lastProcessedId, ticks, confirmed,
                   sentTxs, lastWindow, restarts>>
    /\ UNCHANGED storeVars
    /\ UNCHANGED partVars

\* The process dies and is started again: everything held in memory is
\* lost, open transactions are rolled back, the table and the ledger stay.
Restart ==
    /\ restarts < MaxRestarts
    /\ restarts' = restarts + 1
    /\ phase' = "new"
    /\ lastProcessedId' = InitialLastProcessedId
    /\ ticks' = [t \in Slots |-> Idle]
    /\ aggs' = {}
    /\ ev' = Quiet
    /\ UNCHANGED <<rows, nextId, now, confirmed, sentTxs, lastWindow>>
    /\ UNCHANGED storeVars
    /\ UNCHANGED partVars

\* ------------------------------------------------------ checkAndUpdate
LowestIdle(t) ==
    /\ ticks[t].pc = "idle"
    /\ \A u \in Slots : u < t => ticks[u].pc # "idle"

\* updateContract(data.symbol, data.prices, data.window_start) is called:
\* it runs up to its first await (server.getAccount).
Begin(t, groups) == [pc |-> "simulate", groups |-> groups, attempts |-> 0,
                     txHash |-> 0, batchMax |-> ticks[t].batchMax]

\* The greatest id among the rows of a batch (history: kept in batchMax for
\* as long as the invocation lasts).
BatchMaxId(batch) == MaxOf({ batch[i].id : i \in DOMAIN batch })

NoteAttempt(g) == lastWindow' = g.window_start

NextLastProcessedIdAlways(cursor, group, success) == group.maxId

\* `if (success) { this.lastProcessedId = data.maxId; }`
NextLastProcessedId(cursor, group, success) ==
    IF success THEN group.maxId ELSE cursor

RemainingGroupsNoBreak(groups, success) == Tail(groups)

\* `for (const [key, data] of pricesByWindow)` with `else { ...; break; }`:
\* the groups still to process after the head returned `success`.
RemainingGroups(groups, success) ==
    IF success THEN Tail(groups) ELSE <<>>

\* The await of updateContract in checkAndUpdate resumes with `success`.
UpdateContractReturns(t, success, result) ==
    LET g == Head(ticks[t].groups)
        rest == RemainingGroups(ticks[t].groups, success)
    IN  /\ lastProcessedId' = NextLastProcessedId(lastProcessedId, g, success)
        /\ IF rest = <<>>
           THEN /\ ticks' = [ticks EXCEPT ![t] = Idle]
                /\ UNCHANGED <<lastWindow>>
           ELSE /\ ticks' = [ticks EXCEPT ![t] = Begin(t, rest)]
                /\ NoteAttempt(Head(rest))
        /\ ev' = [result |-> result, pending |-> Len(ticks[t].groups) - 1]

\* A ledger call awaited by updateContract rejects: the catch around its
\* body logs and returns false.  (Were the rejection to leave updateContract,
\* it would end the invocation of checkAndUpdate in its catch.)
LedgerCallThrows(t) ==
    IF Catches("updateContract")
    THEN UpdateContractReturns(t, FALSE, "failed")
    ELSE /\ ticks' = [ticks EXCEPT ![t] = Idle]
         /\ ev' = Escaped("updateContract")
         /\ UNCHANGED <<lastProcessedId, lastWindow>>

\* setInterval fires (whether or not an earlier invocation has returned):
\* the SELECT, the grouping loop, and the call of updateContract for the
\* first group.  The query may throw; an empty result ends the tick.
CheckAndUpdate(t) ==
    /\ phase = "running"
    /\ LowestIdle(t)
    /\ \/ /\ ev' = TickThrows("checkAndUpdate")
          /\ UNCHANGED <<ticks, lastWindow>>
       \/ LET batch == SelectBatch(rows, lastProcessedId)
              groups == PricesByWindow(batch)
          IN  IF Len(batch) = 0
              THEN /\ ev' = Quiet
                   /\ UNCHANGED <<ticks, lastWindow>>
              ELSE /\ ticks' = [ticks EXCEPT ![t] =
                                  [Begin(t, groups) EXCEPT
                                      !.batchMax = BatchMaxId(batch)]]
                   /\ NoteAttempt(Head(groups))
                   /\ ev' = Quiet
    /\ UNCHANGED <<rows, nextId, now, aggs, phase, lastProcessedId, confirmed,
                   sentTxs, restarts>>
    /\ UNCHANGED storeVars
    /\ UNCHANGED partVars

\* ------------------------------------------------------ updateContract
AfterSimulateIgnoringError(sim) == "send"

\* What updateContract does with the simulation response:
\* "send" to go on to prepare/sign/send, "false" to return false.
AfterSimulate(sim) == IF sim = "error" THEN "false" ELSE "send"

SimResult(sim) == IF sim = "error" THEN "simError" ELSE "failed"

\* getAccount, build, `await server.simulateTransaction(transaction)`.
\* sim: "threw" (getAccount or simulateTransaction rejects), "error"
\* ('error' in simulatedTx) or "ok".
Simulate(t) ==
    /\ ticks[t].pc = "simulate"
    /\ \E sim \in {"threw", "error", "ok"} :
          IF sim = "threw"
          THEN LedgerCallThrows(t)
          ELSE IF AfterSimulate(sim) = "false"
          THEN UpdateContractReturns(t, FALSE, SimResult(sim))
          ELSE /\ ticks' = [ticks EXCEPT ![t].pc = "send"]
               /\ ev' = [Quiet EXCEPT !.result = IF sim = "error"
                                                 THEN SimResult(sim) ELSE "-"]
               /\ UNCHANGED <<lastProcessedId, lastWindow>>
    /\ UNCHANGED <<rows, nextId, now, aggs, phase, confirmed, sentTxs,
                   restarts>>
    /\ UNCHANGED storeVars
    /\ UNCHANGED partVars

\* The transaction built for the head group; hash is sendResponse.hash.
\* again records whether the ledger had already confirmed a transaction
\* for the same (symbol, window_start) when this one was sent.
TxOf(g, hash) == [hash |-> hash, symbol |-> g.symbol,
                  window_start |-> g.window_start, prices |-> g.prices,
                  ids |-> g.ids, again |-> KeyOf(g) \in confirmed]

\* prepareTransaction, sign, `await server.sendTransaction(preparedTx)`.
Send(t) ==
    /\ ticks[t].pc = "send"
    /\ LET g == Head(ticks[t].groups)
           hash == Cardinality(sentTxs) + 1
       IN  \/ \* prepareTransaction rejects: nothing is signed or sent
              /\ LedgerCallThrows(t)
              /\ UNCHANGED sentTxs
           \/ /\ Cardinality(sentTxs) < MaxTxs
              /\ sentTxs' = sentTxs \cup {TxOf(g, hash)}
              /\ \/ \* sendResponse.status === 'PENDING'
                    /\ ticks' = [ticks EXCEPT ![t].pc = "poll",
                                              ![t].txHash = hash]
                    /\ ev' = Quiet
                    /\ UNCHANGED <<lastProcessedId, lastWindow>>
                 \/ \* any other status: rejected immediately
                    UpdateContractReturns(t, FALSE, "failed")
                 \/ \* sendTransaction rejects after the request went out
                    LedgerCallThrows(t)
    /\ UNCHANGED <<rows, nextId, now, aggs, phase, confirmed, restarts>>
    /\ UNCHANGED storeVars
    /\ UNCHANGED partVars

PollAgainUnbounded(status, attempts) == status = "NOT_FOUND"

\* `while (getResponse.status === 'NOT_FOUND' && attempts < 30)`
PollAgain(status, attempts) ==
    status = "NOT_FOUND" /\ attempts < MaxPollAttempts

PollResult(status, attempts, other) ==
    IF status = "NOT_FOUND" /\ attempts >= MaxPollAttempts
    THEN "timeout" ELSE other

\* A getTransaction call resolves: the first one, or one of the loop.
Poll(t) ==
    /\ ticks[t].pc = "poll"
    /\ \E status \in {"NOT_FOUND", "SUCCESS", "FAILED", "threw"} :
          IF status = "threw"
          THEN /\ LedgerCallThrows(t)
               /\ UNCHANGED confirmed
          ELSE IF PollAgain(status, ticks[t].attempts)
          THEN /\ ticks' = [ticks EXCEPT ![t].attempts = @ + 1]
               /\ ev' = [Quiet EXCEPT !.result =
                            PollResult(status, ticks[t].attempts, "-")]
               /\ UNCHANGED <<lastProcessedId, lastWindow,
                              confirmed>>
          ELSE IF status = "SUCCESS"
          THEN /\ ticks' = [ticks EXCEPT ![t].pc = "record"]
               /\ confirmed' = confirmed \cup {KeyOf(Head(ticks[t].groups))}
               /\ ev' = Quiet
               /\ UNCHANGED <<lastProcessedId, lastWindow>>
          ELSE /\ UpdateContractReturns(t, FALSE,
                     PollResult(status, ticks[t].attempts, "failed"))
               /\ UNCHANGED confirmed
    /\ UNCHANGED <<rows, nextId, now, aggs, phase, sentTxs, restarts>>
    /\ UNCHANGED storeVars
    /\ UNCHANGED partVars

UpdatePriceTransactionHashUnguarded(table, symbol, windowStart, hash) ==
    { IF r.symbol = symbol /\ r.window_start = windowStart
      THEN [r EXCEPT !.transaction_hash = hash]
      ELSE r : r \in table }

\* UPDATE unique_prices SET transaction_hash = $1
\* WHERE symbol = $2 AND window_start = $3 AND transaction_hash IS NULL
UpdatePriceTransactionHash(table, symbol, windowStart, hash) ==
    { IF /\ r.symbol = symbol
         /\ r.window_start = windowStart
         /\ r.transaction_hash = Null
      THEN [r EXCEPT !.transaction_hash = hash]
      ELSE r : r \in table }

ReturnAfterRecordOnlyIfWritten(wrote) == wrote

\* `try { await updatePriceTransactionHash(...) } catch (dbError) { log }`
\* followed by `return true`: what updateContract returns after a SUCCESS,
\* whether or not the UPDATE went through.
ReturnAfterRecord(wrote) == TRUE

\* After SUCCESS: `await updatePriceTransactionHash(...)` inside its own
\* try/catch (the update may throw: wrote = FALSE), then `return true`.
RecordHash(t) ==
    /\ ticks[t].pc = "record"
    /\ \E wrote \in BOOLEAN :
          LET g == Head(ticks[t].groups)
              success == ReturnAfterRecord(wrote)
          IN  /\ rows' = IF wrote
                         THEN UpdatePriceTransactionHash(rows, g.symbol,
                                  g.window_start, ticks[t].txHash)
                         ELSE rows
              /\ UpdateContractReturns(t, success,
                     IF success THEN "true" ELSE "failed")
    /\ UNCHANGED <<nextId, now, aggs, phase, confirmed, sentTxs, restarts>>
    /\ UNCHANGED storeVars
    /\ UNCHANGED partVars

\* ------------------------------------------------------------ the system
Next ==
    \/ AggregationTick
    \/ \E a \in aggs : InsertUniquePriceWindowCommit(a)
    \/ \E a \in aggs : InsertUniquePriceWindowRollback(a)
    \/ LoadLastProcessedIdOk
    \/ LoadLastProcessedIdFail
    \/ Restart
    \/ \E t \in Slots : CheckAndUpdate(t)
    \/ \E t \in Slots : Simulate(t)
    \/ \E t \in Slots : Send(t)
    \/ \E t \in Slots : Poll(t)
    \/ \E t \in Slots : RecordHash(t)

Spec == Init /\ [][Next]_vars

\* ============================================================ the store
\* The trades table, the aggregation and cleanup crons and the database
\* functions of db.ts, with the clock `now` counted in aggregation periods.
\* Prices are DECIMAL(20, 8) values: the text "p" of a Binance trade has
\* eight decimals and is stored exactly, and node-postgres hands a DECIMAL
\* back as text that is stored exactly again, so a price is one number here.

\* ---------------------------------------------------------------- bounds
MaxTime == 3          \* firings of the aggregation cron in StoreSpec
MaxCalls == 2         \* trade messages received
MaxTradeNo == 2       \* Binance trade numbers (trade.t)

\* ------------------------------------------------- program constants
\* `const maxRetries = 3`
MaxRetries == 3
\* `windowStart = now - 10000`: one aggregation period
WindowLength == 1
\* deleteOldTrades(5), deleteOldUniquePrices(5): five minutes, scaled down
\* to one aggregation period
CleanupMinutes == 1
\* another SYMBOL the same database has been written with
OtherSymbol == "BTCUSDT"

Symbols == {Symbol, OtherSymbol}

\* tradeData as the message handler builds it from a Binance trade event
\* (quantity and is_buyer_maker play no part in what follows).
TradeOf(s, t, p, ts) == [trade_id |-> <<s, t>>, symbol |-> s, price |-> p,
                         timestamp |-> ts]

\* The trade events received: any trade of Symbol, and of the other symbol
\* one trade number at one price.  The last clock value starts no window,
\* so the timestamps stop before it.
TradeData ==
    { TradeOf(Symbol, t, p, ts) :
        t \in 1..MaxTradeNo, p \in 1..MaxPrices, ts \in 0..(MaxTime - 1) }
    \cup { TradeOf(OtherSymbol, 1, 1, ts) : ts \in 0..(MaxTime - 1) }

\* The row of the trades table for a trade inserted at time t.
TradeRow(trade, t) ==
    [trade_id |-> trade.trade_id, symbol |-> trade.symbol,
     price |-> trade.price, timestamp |-> trade.timestamp, created_at |-> t]

Returned(op, outcome, n) == [op |-> op, outcome |-> outcome, n |-> n]

\* ----------------------------------------------------------- insertTrade
InsertTradeRowAlways(table, trade, t) == table \cup {TradeRow(trade, t)}

\* INSERT INTO trades ... ON CONFLICT (trade_id) DO NOTHING
InsertTradeRow(table, trade, t) ==
    IF \E r \in table : r.trade_id = trade.trade_id
    THEN table
    ELSE table \cup {TradeRow(trade, t)}

\* ws.on("message"): a trade event is parsed and insertTrade is called; it
\* runs up to the await of its first pool.query.
OnMessage ==
    /\ calls < MaxCalls
    /\ calls' = calls + 1
    /\ \E trade \in TradeData :
          inserts' = inserts \cup {[trade |-> trade, attempt |-> 1]}
    /\ ret' = NoReturn
    /\ UNCHANGED <<rows, nextId, now, trades, wins, sweep>>
    /\ UNCHANGED engineVars
    /\ UNCHANGED partVars

\* The INSERT of an attempt succeeds: `return`.
InsertTradeOk(c) ==
    /\ c \in inserts
    /\ trades' = InsertTradeRow(trades, c.trade, now)
    /\ inserts' = inserts \ {c}
    /\ ret' = Returned("insertTrade", "ok", c.attempt)
    /\ UNCHANGED <<rows, nextId, now, calls, wins, sweep>>
    /\ UNCHANGED engineVars
    /\ UNCHANGED partVars

RetryAfterAlways(attempt) == TRUE

\* `for (let attempt = 1; attempt <= maxRetries; attempt++)`: whether
\* another attempt follows the failure of this one.
RetryAfter(attempt) == attempt < MaxRetries

\* The INSERT of an attempt fails: the next attempt after the back-off, or
\* `throw new Error("Failed to insert trade after 3 attempts...")`, which
\* the message handler catches and logs.
InsertTradeFail(c) ==
    /\ c \in inserts
    /\ IF RetryAfter(c.attempt)
       THEN /\ inserts' = (inserts \ {c})
                             \cup {[c EXCEPT !.attempt = c.attempt + 1]}
            /\ ret' = NoReturn
       ELSE /\ inserts' = inserts \ {c}
            /\ ret' = Returned("insertTrade", "threw", c.attempt)
    /\ UNCHANGED <<rows, nextId, now, trades, calls, wins, sweep>>
    /\ UNCHANGED engineVars
    /\ UNCHANGED partVars

\* ---------------------------------------------------- aggregation cron
\* The prices of a set in ascending order (ORDER BY price).
RECURSIVE Ascending(_)
Ascending(S) ==
    IF S = {} THEN <<>>
    ELSE LET m == CHOOSE x \in S : \A y \in S : x <= y
         IN  <<m>> \o Ascending(S \ {m})

GetUniquePricesInWindowClosed(table, symbol, startTimestamp, endTimestamp) ==
    Ascending({ r.price : r \in { x \in table :
                    /\ x.symbol = symbol
                    /\ x.timestamp >= startTimestamp
                    /\ x.timestamp <= endTimestamp } })

\* SELECT DISTINCT price FROM trades WHERE symbol = $1
\*   AND timestamp >= $2 AND timestamp < $3 ORDER BY price
GetUniquePricesInWindow(table, symbol, startTimestamp, endTimestamp) ==
    Ascending({ r.price : r \in { x \in table :
                    /\ x.symbol = symbol
                    /\ x.timestamp >= startTimestamp
                    /\ x.timestamp < endTimestamp } })

NeedsConnectionAlways(prices) == TRUE

\* `if (prices.length === 0) return;` before `await pool.connect()`
NeedsConnection(prices) == Len(prices) # 0

\* insertUniquePriceWindow(symbol, prices, windowStart, windowEnd) is called
\* at time t: it returns at once, or takes a connection and sends BEGIN.
CallInsertUniquePriceWindow(symbol, prices, windowStart, windowEnd, t) ==
    IF NeedsConnection(prices)
    THEN /\ wins' = wins \cup {[symbol |-> symbol, prices |-> prices,
                                window_start |-> windowStart,
                                window_end |-> windowEnd, begun |-> t]}
         /\ ret' = NoReturn
    ELSE /\ wins' = wins
         /\ ret' = Returned("insertUniquePriceWindow", "ok", 0)

\* `if (uniquePrices.length > 0)` of the cron callback
CronInserts(uniquePrices) == Len(uniquePrices) > 0

\* cron "*/10 * * * * *" fires one period later: now = Date.now(),
\* windowEnd = now, windowStart = now - 10000; the SELECT is awaited (it may
\* throw, or pool.connect may, which the callback catches and logs) and its
\* result is handed to insertUniquePriceWindow unless it is empty.
AggregationCron ==
    /\ now < MaxTime
    /\ now' = now + 1
    /\ LET windowEnd == now + 1
           windowStart == windowEnd - WindowLength
           uniquePrices == GetUniquePricesInWindow(trades, Symbol,
                               windowStart, windowEnd)
       IN  \/ /\ ret' = Returned("aggregate", "caught", 0)
              /\ UNCHANGED wins
           \/ IF CronInserts(uniquePrices)
              THEN CallInsertUniquePriceWindow(Symbol, uniquePrices,
                       windowStart, windowEnd, windowEnd)
              ELSE /\ ret' = NoReturn
                   /\ UNCHANGED wins
    /\ UNCHANGED <<rows, nextId, trades, inserts, calls, sweep>>
    /\ UNCHANGED engineVars
    /\ UNCHANGED partVars

\* insertUniquePriceWindow applied to an empty list of prices.
InsertEmptyWindow ==
    /\ CallInsertUniquePriceWindow(Symbol, <<>>, now - WindowLength, now, now)
    /\ UNCHANGED <<rows, nextId, now, trades, inserts, calls, sweep>>
    /\ UNCHANGED engineVars
    /\ UNCHANGED partVars

\* The rows of one call: one INSERT per price in the order of the list,
\* ids from the sequence, created_at the CURRENT_TIMESTAMP of the
\* transaction, transaction_hash NULL.
WindowRows(w, firstId, count) ==
    { [id |-> firstId + i - 1, symbol |-> w.symbol, price |-> w.prices[i],
       window_start |-> w.window_start, transaction_hash |-> Null,
       created_at |-> w.begun] : i \in 1..count }

\* BEGIN, one INSERT per price, COMMIT; `finally { client.release() }`.
InsertUniquePriceWindowDone(w) ==
    /\ w \in wins
    /\ nextId + Len(w.prices) - 1 <= MaxRows
    /\ rows' = rows \cup WindowRows(w, nextId, Len(w.prices))
    /\ nextId' = nextId + Len(w.prices)
    /\ wins' = wins \ {w}
    /\ ret' = Returned("insertUniquePriceWindow", "ok", Len(w.prices))
    /\ UNCHANGED <<now, trades, inserts, calls, sweep>>
    /\ UNCHANGED engineVars
    /\ UNCHANGED partVars

RowsAfterRollbackKeeping(table, partial) == table \cup partial

\* `catch (error) { await client.query("ROLLBACK"); throw error; }`: the
\* table after the transaction that had inserted `partial` is rolled back.
RowsAfterRollback(table, partial) == table

\* A statement of the transaction fails after k rows were inserted (BEGIN:
\* k = 0; COMMIT: all of them): ROLLBACK, rethrow, release.  The sequence
\* values stay consumed.
InsertUniquePriceWindowFailed(w) ==
    /\ w \in wins
    /\ \E k \in 0..Len(w.prices) :
          /\ nextId + k - 1 <= MaxRows
          /\ rows' = RowsAfterRollback(rows, WindowRows(w, nextId, k))
          /\ nextId' = nextId + k
    /\ wins' = wins \ {w}
    /\ ret' = Returned("insertUniquePriceWindow", "threw", 0)
    /\ UNCHANGED <<now, trades, inserts, calls, sweep>>
    /\ UNCHANGED engineVars
    /\ UNCHANGED partVars

\* The engine stamps the rows of a window after a SUCCESS.
WriteBack ==
    /\ \E r \in rows : \E hash \in 1..MaxTxs :
          /\ r.transaction_hash = Null
          /\ rows' = UpdatePriceTransactionHash(rows, r.symbol,
                         r.window_start, hash)
    /\ ret' = NoReturn
    /\ UNCHANGED <<nextId, now, trades, inserts, calls, wins, sweep>>
    /\ UNCHANGED engineVars
    /\ UNCHANGED partVars

\* --------------------------------------------------------- cleanup cron
DeleteOldInclusive(table, t, minutesOld) ==
    { r \in table : ~(r.created_at <= t - minutesOld) }

\* DELETE FROM ... WHERE created_at < NOW() - INTERVAL '1 minute' * $1
\* (the same statement for trades and for unique_prices): the rows kept.
DeleteOld(table, t, minutesOld) ==
    { r \in table : ~(r.created_at < t - minutesOld) }

\* `return result.rowCount || 0`
RowCount(before, after) == Cardinality(before \ after)

\* cron "*/5 * * * *" fires: `await deleteOldTrades(5)`, which may throw
\* (caught and logged, the callback is over).
CleanupCron ==
    /\ sweep = "idle"
    /\ \/ /\ ret' = Returned("cleanup", "caught", 0)
          /\ UNCHANGED <<trades, sweep>>
       \/ /\ trades' = DeleteOld(trades, now, CleanupMinutes)
          /\ ret' = Returned("deleteOldTrades", "ok",
                             RowCount(trades, trades'))
          /\ sweep' = "prices"
    /\ UNCHANGED <<rows, nextId, now, inserts, calls, wins>>
    /\ UNCHANGED engineVars
    /\ UNCHANGED partVars

\* `await deleteOldUniquePrices(5)` of the same callback.
CleanupPrices ==
    /\ sweep = "prices"
    /\ sweep' = "idle"
    /\ \/ /\ ret' = Returned("cleanup", "caught", 0)
          /\ UNCHANGED rows
       \/ /\ rows' = DeleteOld(rows, now, CleanupMinutes)
          /\ ret' = Returned("deleteOldUniquePrices", "ok",
                             RowCount(rows, rows'))
    /\ UNCHANGED <<nextId, now, trades, inserts, calls, wins>>
    /\ UNCHANGED engineVars
    /\ UNCHANGED partVars

StoreNext ==
    \/ OnMessage
    \/ \E c \in inserts : InsertTradeOk(c)
    \/ \E c \in inserts : InsertTradeFail(c)
    \/ AggregationCron
    \/ InsertEmptyWindow
    \/ \E w \in wins : InsertUniquePriceWindowDone(w)
    \/ \E w \in wins : InsertUniquePriceWindowFailed(w)
    \/ WriteBack
    \/ CleanupCron
    \/ CleanupPrices

StoreSpec == Init /\ [][StoreNext]_vars

\* ===================================================== the grouping loop
\* The loop of checkAndUpdate that builds pricesByWindow from result.rows,
\* taken on its own: the rows are any answer the polling query can give (rows
\* of both symbols, distinct ids, in the order of ORDER BY window_start, id)
\* and the loop is GroupFrom, as the engine applies it.

\* ---------------------------------------------------------------- bounds
MaxBatch == 3         \* rows in one answer of the polling query

\* The columns of a unique_prices row that the loop reads, besides the id.
RowFields == Symbols \X (1..MaxPrices) \X (1..MaxWindows)

\* The rows with the ids of I (id is the primary key) and the columns f
\* gives them.
RowsWith(I, f) ==
    { [id |-> i, symbol |-> f[i][1], price |-> f[i][2],
       window_start |-> f[i][3], transaction_hash |-> Null] : i \in I }

\* The sets of ids of the rows of an answer of the polling query that is not
\* empty: up to MaxBatch rows of a table within the bounds of the engine.
BatchIds == { J \in SUBSET (1..MaxRows) : J # {} /\ Cardinality(J) <= MaxBatch }

\* `const result = await this.pool.query(...)` returns rows, in the order
\* of the query, and `new Map()` is empty: the loop has not run yet.
QueryReturns ==
    /\ resultRows = <<>>
    /\ \E I \in BatchIds :
          \E f \in [I -> RowFields] : resultRows' = OrderRows(RowsWith(I, f))
    /\ pricesByWindow' = <<>>
    /\ UNCHANGED <<rows, nextId, now>>
    /\ UNCHANGED engineVars
    /\ UNCHANGED storeVars
    /\ UNCHANGED clientVars
    /\ UNCHANGED shutdownVars
    /\ UNCHANGED poolVars
    /\ UNCHANGED broadcastVars

\* `for (const row of result.rows) { ... }`
GroupRows ==
    /\ resultRows # <<>>
    /\ pricesByWindow = <<>>
    /\ pricesByWindow' = PricesByWindow(resultRows)
    /\ UNCHANGED <<rows, nextId, now, resultRows>>
    /\ UNCHANGED engineVars
    /\ UNCHANGED storeVars
    /\ UNCHANGED clientVars
    /\ UNCHANGED shutdownVars
    /\ UNCHANGED poolVars
    /\ UNCHANGED broadcastVars

GroupNext ==
    \/ QueryReturns
    \/ GroupRows

GroupSpec == Init /\ [][GroupNext]_vars


\* ===================================================== the ingestion client
\* PriceFeedClient taken on its own: its fields, the sockets it has made and
\* the timers it has set.  The environment is the socket library (a socket
\* opens or fails, receives messages, and emits close exactly once, after an
\* error too) and the caller of start() and stop().

\* ---------------------------------------------------------------- bounds
MaxSockets == 3       \* sockets the client makes
MaxMessages == 2      \* messages received over all sockets

\* ------------------------------------------------- program constants
\* `private reconnectInterval = 5000`
ReconnectInterval == 5000

\* Everything but the client.
notClient == <<rows, nextId, now, engineVars, storeVars, groupVars,
               shutdownVars, poolVars, broadcastVars>>

\* `this.ws = new WebSocket(this.wsUrl)`: the socket is CONNECTING.
Connect ==
    /\ sockets' = Append(sockets, "connecting")
    /\ ws' = Len(sockets) + 1

\* start(): main calls it once.
ClientStart ==
    /\ ~started
    /\ started' = TRUE
    /\ Connect
    /\ UNCHANGED <<shouldReconnect, timers, received, handling, delivered>>
    /\ UNCHANGED notClient

\* Closing handshake begun by ws.close(); a socket that is already CLOSING or
\* CLOSED is left alone.
CloseSocket(ss, i) ==
    IF i # 0 /\ ss[i] \in {"connecting", "open"}
    THEN [ss EXCEPT ![i] = "closing"]
    ELSE ss

\* stop()
ClientStop ==
    /\ started
    /\ shouldReconnect' = FALSE
    /\ sockets' = CloseSocket(sockets, ws)
    /\ UNCHANGED <<ws, timers, started, received, handling, delivered>>
    /\ UNCHANGED notClient

\* "open" event: logs.
OnOpen(i) ==
    /\ sockets[i] = "connecting"
    /\ sockets' = [sockets EXCEPT ![i] = "open"]
    /\ UNCHANGED <<ws, shouldReconnect, timers, started, received, handling,
                   delivered>>
    /\ UNCHANGED notClient

\* "error" event (the handshake failed, the connection broke): logs.  The
\* library emits close next.
OnError(i) ==
    /\ sockets[i] \in {"connecting", "open"}
    /\ sockets' = [sockets EXCEPT ![i] = "closing"]
    /\ UNCHANGED <<ws, shouldReconnect, timers, started, received, handling,
                   delivered>>
    /\ UNCHANGED notClient

\* What the close handler leaves in the timer list.
TimersAfterCloseNone(pending, reconnect) == pending

TimersAfterClose(pending, reconnect) ==
    IF reconnect THEN Append(pending, ReconnectInterval) ELSE pending

\* "close" event, once per socket: the peer closed, an error closed it or
\* ws.close() finished.  No further socket closes once MaxSockets are made.
OnClose(i) ==
    /\ sockets[i] \in {"open", "closing"}
    /\ Len(sockets) < MaxSockets \/ ~shouldReconnect
    /\ sockets' = [sockets EXCEPT ![i] = "closed"]
    /\ timers' = TimersAfterClose(timers, shouldReconnect)
    /\ UNCHANGED <<ws, shouldReconnect, started, received, handling, delivered>>
    /\ UNCHANGED notClient

\* The callback of setTimeout runs: `() => this.connect()`.
TimerFires ==
    /\ timers # <<>>
    /\ timers' = Tail(timers)
    /\ Connect
    /\ UNCHANGED <<shouldReconnect, started, received, handling, delivered>>
    /\ UNCHANGED notClient

\* "message" event up to the await of insertTrade: a trade event starts an
\* insertTrade call; any other message (not a trade, not JSON) is dropped,
\* the exception of JSON.parse being caught.
ReceiveMessage(i) ==
    /\ sockets[i] = "open"
    /\ received < MaxMessages
    /\ received' = received + 1
    /\ \E isTrade \in BOOLEAN :
          handling' = IF isTrade THEN handling + 1 ELSE handling
    /\ UNCHANGED <<ws, sockets, shouldReconnect, timers, started, delivered>>
    /\ UNCHANGED notClient

\* insertTrade returns, and the handler reaches `if (this.onTradeCallback)`;
\* or insertTrade throws, which the handler catches.
AfterInsertTrade ==
    /\ handling > 0
    /\ handling' = handling - 1
    /\ \E ok \in BOOLEAN : delivered' = IF ok THEN delivered + 1 ELSE delivered
    /\ UNCHANGED <<ws, sockets, shouldReconnect, timers, started, received>>
    /\ UNCHANGED notClient

ClientNext ==
    \/ ClientStart
    \/ ClientStop
    \/ \E i \in DOMAIN sockets : OnOpen(i)
    \/ \E i \in DOMAIN sockets : OnError(i)
    \/ \E i \in DOMAIN sockets : OnClose(i)
    \/ TimerFires
    \/ \E i \in DOMAIN sockets : ReceiveMessage(i)
    \/ AfterInsertTrade

ClientSpec == Init /\ [][ClientNext]_vars

\* A timer set with setTimeout runs its callback after its delay: nothing in
\* the client blocks the event loop.
ClientLive == ClientSpec /\ WF_vars(TimerFires)

\* =============================================================== shutdown
\* main after its set-up, the two signal handlers it registers and the
\* periodic callbacks it has scheduled (the cleanup cron, the aggregation
\* cron and the setInterval of the oracle updater), which all use the one
\* pool of db.ts.  A periodic callback is taken up to its first database
\* call, whose failure it catches.

\* ---------------------------------------------------------------- bounds
MaxSignals == 2       \* SIGINT and SIGTERM signals delivered
MaxOps == 3           \* periodic callbacks that run

Signals == {"SIGINT", "SIGTERM"}

Periodic == {"cleanup", "aggregation", "checkAndUpdate"}

\* Everything but the shutdown variables and the client.
notShutdown == <<rows, nextId, now, engineVars, storeVars, groupVars,
                 poolVars, broadcastVars>>

\* main runs to its end: the client is started, the crons are scheduled and
\* the handlers are registered.
MainStarts ==
    /\ ClientStart
    /\ UNCHANGED shutdownVars

\* pool.end(): the pool starts ending; a pool that is ending or has ended
\* rejects the call ("Called end on pool more than once").
EndPool(state) == IF state = "open" THEN "pending" ELSE "rejected"

\* A signal arrives and its handler runs up to `await closeDatabase()`:
\* client.stop(), then closeDatabase() calls pool.end().
OnSignal(sig) ==
    /\ started
    /\ exit = "running"
    /\ signals < MaxSignals
    /\ signals' = signals + 1
    /\ shouldReconnect' = FALSE
    /\ sockets' = CloseSocket(sockets, ws)
    /\ closeCalls' = closeCalls + 1
    /\ handlers' = Append(handlers, [signal |-> sig, end |-> EndPool(pool)])
    /\ pool' = IF pool = "open" THEN "ending" ELSE pool
    /\ UNCHANGED <<ws, timers, started, received, handling, delivered>>
    /\ UNCHANGED <<exit, issued, lastOp>>
    /\ UNCHANGED notShutdown

\* pool.end() resolves and the handler goes on: process.exit(0).
HandlerExits(h) ==
    /\ exit = "running"
    /\ handlers[h].end = "pending"
    /\ pool' = "ended"
    /\ exit' = "exit(0)"
    /\ handlers' = [handlers EXCEPT ![h].end = "resolved"]
    /\ UNCHANGED <<signals, closeCalls, issued, lastOp>>
    /\ UNCHANGED clientVars
    /\ UNCHANGED notShutdown

\* pool.end() rejects: the async handler has no catch, so its promise is
\* rejected and unhandled.  Node ends the process with code 1, or, with
\* --unhandled-rejections=warn and before Node 15, only prints a warning.
HandlerRejects(h) ==
    /\ exit = "running"
    /\ handlers[h].end = "rejected"
    /\ handlers' = [handlers EXCEPT ![h].end = "thrown"]
    /\ \E crashes \in BOOLEAN :
          exit' = IF crashes THEN "exit(1)" ELSE exit
    /\ UNCHANGED <<signals, closeCalls, pool, issued, lastOp>>
    /\ UNCHANGED clientVars
    /\ UNCHANGED notShutdown

\* What a query on the pool does: a pool that is ending or has ended rejects
\* it ("Cannot use a pool after calling end on the pool").
QueryOn(state) == IF state = "open" THEN "answered" ELSE "rejected"

\* A periodic callback runs and issues its first database call.  Nothing
\* unschedules the crons or clears the interval, so they run until the
\* process exits.
PeriodicCallback(kind) ==
    /\ started
    /\ exit = "running"
    /\ issued < MaxOps
    /\ issued' = issued + 1
    /\ lastOp' = [kind |-> kind, outcome |-> QueryOn(pool),
                  closeCalls |-> closeCalls]
    /\ UNCHANGED <<signals, closeCalls, pool, handlers, exit>>
    /\ UNCHANGED clientVars
    /\ UNCHANGED notShutdown

ShutdownNext ==
    \/ MainStarts
    \/ \E sig \in Signals : OnSignal(sig)
    \/ \E h \in DOMAIN handlers : HandlerExits(h)
    \/ \E h \in DOMAIN handlers : HandlerRejects(h)
    \/ \E kind \in Periodic : PeriodicCallback(kind)

ShutdownSpec == Init /\ [][ShutdownNext]_vars

\* ==================================================== pooled connections
\* The three functions of db.ts that check a connection out of the pool
\* with pool.connect(): initDatabase and initUniquePricesDatabase, which main
\* awaits one after the other before anything else runs, and
\* insertUniquePriceWindow, which the aggregation cron calls without waiting
\* for its previous call.  Every await is a step that succeeds or throws.

\* ---------------------------------------------------------------- bounds
MaxDbOps == 5         \* calls of the three functions

\* ------------------------------------------------- program constants
\* `max: 20` of the Pool, scaled down so that a call can wait for a
\* connection within MaxDbOps.
PoolMax == 2

\* Everything but the pool.
notPool == <<rows, nextId, now, engineVars, storeVars, groupVars, clientVars,
             shutdownVars, broadcastVars>>

Ended(o) == o.pc \in {"returned", "threw"}

\* A call that has not reached pool.connect() yet or waits for it.
NewOp(fn, n) == [fn |-> fn, pc |-> "connect", left |-> n, acquired |-> 0,
                 released |-> 0]

\* main: `await initDatabase(); await initUniquePricesDatabase();`
CallInit ==
    /\ \/ /\ dbOps = <<>>
          /\ dbOps' = <<NewOp("initDatabase", 0)>>
       \/ /\ Len(dbOps) = 1
          /\ dbOps[1].pc = "returned"
          /\ dbOps' = Append(dbOps, NewOp("initUniquePricesDatabase", 0))
    /\ UNCHANGED checkedOut
    /\ UNCHANGED notPool

\* The aggregation cron calls insertUniquePriceWindow with n prices; a call
\* with no prices returns before pool.connect().
CallInsertWindow(n) ==
    /\ Len(dbOps) >= 2
    /\ Len(dbOps) < MaxDbOps
    /\ dbOps[2].pc = "returned"
    /\ dbOps' = Append(dbOps,
                       IF n = 0
                       THEN [NewOp("insertUniquePriceWindow", 0)
                               EXCEPT !.pc = "returned"]
                       ELSE NewOp("insertUniquePriceWindow", n))
    /\ UNCHANGED checkedOut
    /\ UNCHANGED notPool

\* The statement a function runs first on its connection.
FirstQuery(fn) == IF fn = "insertUniquePriceWindow" THEN "begin" ELSE "create"

\* pool.connect() resolves: a connection is checked out.
ConnectOk(o) ==
    /\ dbOps[o].pc = "connect"
    /\ checkedOut < PoolMax
    /\ checkedOut' = checkedOut + 1
    /\ dbOps' = [dbOps EXCEPT ![o].pc = FirstQuery(dbOps[o].fn),
                              ![o].acquired = 1]
    /\ UNCHANGED notPool

\* pool.connect() rejects (no connection within connectionTimeoutMillis, the
\* server refuses): the call is before the try, so the function throws.
ConnectFails(o) ==
    /\ dbOps[o].pc = "connect"
    /\ dbOps' = [dbOps EXCEPT ![o].pc = "threw"]
    /\ UNCHANGED checkedOut
    /\ UNCHANGED notPool

ReleasesUnlessRollbackFails(path) == path # "rollbackFailed"

\* `finally { client.release(); }` runs on every way out of the try: the
\* normal end, an exception thrown by the try body (initDatabase) or
\* rethrown by the catch, and an exception thrown by ROLLBACK in the catch.
Releases(path) == TRUE

\* The function leaves its try statement by the given path.
Leave(o, path) ==
    LET r == IF Releases(path) THEN 1 ELSE 0
    IN  /\ checkedOut' = checkedOut - r
        /\ dbOps' = [dbOps EXCEPT
                       ![o].pc = IF path = "done" THEN "returned" ELSE "threw",
                       ![o].released = @ + r]

\* A statement succeeds.
QueryOk(o) ==
    /\ dbOps[o].pc \in {"create", "begin", "insert", "commit"}
    /\ CASE dbOps[o].pc = "begin" ->
              /\ dbOps' = [dbOps EXCEPT ![o].pc = "insert"]
              /\ UNCHANGED checkedOut
         [] dbOps[o].pc = "insert" ->
              /\ dbOps' = [dbOps EXCEPT
                             ![o].left = @ - 1,
                             ![o].pc = IF dbOps[o].left = 1
                                       THEN "commit" ELSE "insert"]
              /\ UNCHANGED checkedOut
         [] OTHER -> Leave(o, "done")
    /\ UNCHANGED notPool

\* A statement throws: initDatabase and initUniquePricesDatabase have no
\* catch; insertUniquePriceWindow goes to its catch, which awaits ROLLBACK.
QueryFails(o) ==
    /\ dbOps[o].pc \in {"create", "begin", "insert", "commit"}
    /\ IF dbOps[o].pc = "create"
       THEN Leave(o, "createFailed")
       ELSE /\ dbOps' = [dbOps EXCEPT ![o].pc = "rollback"]
            /\ UNCHANGED checkedOut
    /\ UNCHANGED notPool

\* ROLLBACK succeeds and the catch rethrows, or ROLLBACK throws.
RollbackReturns(o) ==
    /\ dbOps[o].pc = "rollback"
    /\ \E ok \in BOOLEAN :
          Leave(o, IF ok THEN "rethrown" ELSE "rollbackFailed")
    /\ UNCHANGED notPool

PoolNext ==
    \/ CallInit
    \/ \E n \in 0..MaxPrices : CallInsertWindow(n)
    \/ \E o \in DOMAIN dbOps : ConnectOk(o)
    \/ \E o \in DOMAIN dbOps : ConnectFails(o)
    \/ \E o \in DOMAIN dbOps : QueryOk(o)
    \/ \E o \in DOMAIN dbOps : QueryFails(o)
    \/ \E o \in DOMAIN dbOps : RollbackReturns(o)

PoolSpec == Init /\ [][PoolNext]_vars

\* ================================================== the broadcast server
\* TradeBroadcastServer taken on its own: its two fields, its set of
\* clients and the trades handed to broadcast(), in any order (the message
\* handlers of the ingestion client finish in any order).

\* ---------------------------------------------------------------- bounds
MaxStamp == 5         \* largest trade timestamp, in scaled milliseconds

\* ------------------------------------------------- program constants
\* `trade.timestamp / 1000`: milliseconds in a second, scaled down so that
\* timestamps within MaxStamp share a second
MsPerSecond == 2

\* Everything but the broadcast server.
notBroadcast == <<rows, nextId, now, engineVars, storeVars, groupVars,
                  clientVars, shutdownVars, poolVars>>

\* The trades handed to broadcast(): the event time of a trade is a time
\* after 1970, at least one second.
BroadcastTrades ==
    [price : 1..MaxPrices, timestamp : MsPerSecond..MaxStamp]

\* Math.floor(timestamp / 1000)
SecondOf(timestamp) == timestamp \div MsPerSecond

\* "connection" event: the socket is added to the set.
OnConnection(c) ==
    /\ clients[c] = "none"
    /\ clients' = [clients EXCEPT ![c] = "open"]
    /\ UNCHANGED <<lastBroadcastSecond, lastBroadcastPrice, messages, bcast>>
    /\ UNCHANGED notBroadcast

\* A client socket leaves the OPEN state (closing handshake, broken
\* connection) before its close or error event is handled.
ClientClosing(c) ==
    /\ clients[c] = "open"
    /\ clients' = [clients EXCEPT ![c] = "closing"]
    /\ UNCHANGED <<lastBroadcastSecond, lastBroadcastPrice, messages, bcast>>
    /\ UNCHANGED notBroadcast

\* "close" or "error" event of a client: the socket is deleted from the set.
OnClientGone(c) ==
    /\ clients[c] # "none"
    /\ clients' = [clients EXCEPT ![c] = "none"]
    /\ UNCHANGED <<lastBroadcastSecond, lastBroadcastPrice, messages, bcast>>
    /\ UNCHANGED notBroadcast

ShouldBroadcastAlways(trade, lastPrice, lastSecond) == TRUE

\* shouldBroadcast
ShouldBroadcast(trade, lastPrice, lastSecond) ==
    LET currentSecond == SecondOf(trade.timestamp)
        priceChanged == trade.price # lastPrice
        secondChanged == currentSecond # lastSecond
    IN  priceChanged \/ secondChanged

\* The last two messages broadcast.
Keep2(ms) == IF Len(ms) > 2 THEN Tail(ms) ELSE ms

\* broadcast(trade): a trade that need not be broadcast changes nothing;
\* otherwise the fields are set, the message is built and sent to every
\* client that is OPEN, and a send that throws is caught (ok: the clients
\* whose send succeeded).
Broadcast(trade) ==
    IF ~ShouldBroadcast(trade, lastBroadcastPrice, lastBroadcastSecond)
    THEN /\ bcast' = [trade |-> trade, sent |-> FALSE, successCount |-> 0]
         /\ UNCHANGED <<lastBroadcastSecond, lastBroadcastPrice, messages,
                        clients>>
         /\ UNCHANGED notBroadcast
    ELSE /\ lastBroadcastSecond' = SecondOf(trade.timestamp)
         /\ lastBroadcastPrice' = trade.price
         /\ messages' = Keep2(Append(messages,
                                     [timestamp |-> trade.timestamp,
                                      price |-> trade.price]))
         /\ \E ok \in SUBSET { c \in DOMAIN clients : clients[c] = "open" } :
               bcast' = [trade |-> trade, sent |-> TRUE,
                         successCount |-> Cardinality(ok)]
         /\ UNCHANGED clients
         /\ UNCHANGED notBroadcast

BroadcastNext ==
    \/ \E c \in DOMAIN clients : OnConnection(c)
    \/ \E c \in DOMAIN clients : ClientClosing(c)
    \/ \E c \in DOMAIN clients : OnClientGone(c)
    \/ \E trade \in BroadcastTrades : Broadcast(trade)

BroadcastSpec == Init /\ [][BroadcastNext]_vars

\* =============================================================== claims
Active(t) == ticks[t].pc # "idle"

Hashed(table) == {r \in table : r.transaction_hash # Null}

SameRun == restarts' = restarts /\ phase = "running" /\ phase' = "running"

\* C1: within one run, after start() has loaded the cursor, lastProcessedId
\* never decreases from one step to the next.
C1_CursorNeverDecreases ==
    [][SameRun => lastProcessedId' >= lastProcessedId]_vars

\* C2: no transaction is ever sent for a (symbol, window_start) for which the
\* ledger had already confirmed a transaction as SUCCESS.
C2_NoDoubleSubmit == \A x \in sentTxs : ~x.again

\* C3: when loadLastProcessedId succeeds and some row carries a
\* transaction_hash, the cursor becomes the greatest id among the rows that
\* carry one (so unhashed rows above it are still queried).
C3_CursorFromHashedRows ==
    [][LoadLastProcessedIdOk /\ Hashed(rows) # {}
         => lastProcessedId' = MaxRowId(Hashed(rows))]_vars

\* C4: within one run the cursor changes only in a step in which
\* updateContract returned true for a group, and then it becomes the greatest
\* row id of that group; a failed or unattempted group never moves it.
C4_CursorMovesOnlySuccess ==
    [][SameRun /\ lastProcessedId' # lastProcessedId
         => /\ ev'.result = "true"
            /\ \E t \in Slots :
                  /\ ticks[t].pc = "record"
                  /\ ticks'[t] # ticks[t]
                  /\ lastProcessedId' = MaxOf(Head(ticks[t].groups).ids)]_vars

C4_Witness ==
    /\ ev.result = "true"
    /\ phase = "running"
    /\ lastProcessedId > 0
    /\ \E r \in rows : r.id = lastProcessedId /\ KeyOf(r) \in confirmed

\* C5: every transaction sent for a (symbol, window_start) carries all the
\* rows of the table that share that (symbol, window_start).
C5_WindowInOneSubmission ==
    \A x \in sentTxs : \A r \in rows :
        KeyOf(r) = <<x.symbol, x.window_start>> => r.id \in x.ids

\* C6: at most one checkAndUpdate invocation and at most one aggregation
\* callback are in progress at any time.
C6_NoOverlappingTicks ==
    /\ Cardinality({t \in Slots : Active(t)}) <= 1
    /\ Cardinality(aggs) <= 1

\* C7: the window_start of successive updateContract calls never decreases.
C7_AttemptsInWindowOrder == [][lastWindow' >= lastWindow]_vars

\* C8: in a step in which updateContract returns false, the cursor keeps its
\* value, the invocation of checkAndUpdate ends, and no updateContract call
\* is begun for a later group.
C8_FailureEndsTick ==
    [][ev'.result \in Failures /\ restarts' = restarts
         => /\ lastProcessedId' = lastProcessedId
            /\ lastWindow' = lastWindow
            /\ \E t \in Slots : Active(t) /\ ticks'[t] = Idle]_vars

C8_Witness ==
    /\ ev.result \in Failures
    /\ ev.pending > 0
    /\ \A t \in Slots : ~Active(t)

\* C9: in a step in which the simulation response carries an error, nothing
\* is handed to sendTransaction, updateContract returns (the invocation is
\* over, so nothing is sent for that attempt later either) and the cursor
\* keeps its value.
C9_SimulationErrorSendsNothing ==
    [][ev'.result = "simError" /\ restarts' = restarts
         => /\ sentTxs' = sentTxs
            /\ lastProcessedId' = lastProcessedId
            /\ \E t \in Slots : ticks[t].pc = "simulate" /\ ticks'[t] = Idle]_vars

C9_Witness ==
    /\ ev.result = "simError"
    /\ rows # {}
    /\ \A t \in Slots : ~Active(t)

\* C10: the confirmation loop re-polls at most MaxPollAttempts times, and in
\* the step in which a poll answers NOT_FOUND with the budget used up,
\* updateContract returns false: the invocation ends and the cursor keeps
\* its value.
C10_PollingBounded ==
    [][/\ \A t \in Slots : ticks'[t].attempts <= MaxPollAttempts
       /\ ev'.result = "timeout" /\ restarts' = restarts
            => /\ lastProcessedId' = lastProcessedId
               /\ \E t \in Slots :
                     /\ ticks[t].pc = "poll"
                     /\ ticks[t].attempts = MaxPollAttempts
                     /\ ticks'[t] = Idle]_vars

C10_Witness ==
    /\ ev.result = "timeout"
    /\ sentTxs # {}
    /\ \A t \in Slots : ~Active(t)

\* C11: in a step in which the ledger has answered SUCCESS for a group and
\* the write-back of the hash fails (the table keeps its rows of the group
\* without a hash), updateContract still returns true and the cursor becomes
\* the greatest row id of the group.
C11_HashWriteFailureStillAdvances ==
    [][\A t \in Slots :
          /\ ticks[t].pc = "record"
          /\ ticks'[t] # ticks[t]
          /\ restarts' = restarts
          /\ rows' = rows
          /\ \E r \in rows : /\ KeyOf(r) = KeyOf(Head(ticks[t].groups))
                             /\ r.transaction_hash = Null
          => /\ ev'.result = "true"
             /\ lastProcessedId' = Head(ticks[t].groups).maxId]_vars

C11_Witness ==
    /\ ev.result = "true"
    /\ \E r \in rows : /\ r.id = lastProcessedId
                       /\ KeyOf(r) \in confirmed
                       /\ r.transaction_hash = Null
    /\ \A x \in sentTxs : ~x.again

\* C12: a row's transaction_hash only ever goes from NULL to a value: a row
\* that carries a hash keeps that hash in every step; and applying the
\* write-back of a sent transaction twice gives the table that applying it
\* once gives.
C12_HashWrittenOnce ==
    [][/\ \A r \in rows : \A s \in rows' :
             r.id = s.id /\ r.transaction_hash # Null
                => s.transaction_hash = r.transaction_hash
       /\ \A x \in sentTxs :
             LET once == UpdatePriceTransactionHash(rows, x.symbol,
                             x.window_start, x.hash)
             IN  UpdatePriceTransactionHash(once, x.symbol, x.window_start,
                                            x.hash) = once]_vars

\* Two transactions were sent for one window, the second after the ledger
\* had confirmed the window, the rows carry the hash of one of them, and the
\* last step was a write-back followed by `return true`.
C12_Witness ==
    /\ ev.result = "true"
    /\ \A t \in Slots : ~Active(t)
    /\ \E x \in sentTxs : \E r \in rows :
          /\ x.again
          /\ KeyOf(r) = <<x.symbol, x.window_start>>
          /\ r.transaction_hash # Null
          /\ r.transaction_hash # x.hash

\* The trades of a table of a symbol with t0 <= timestamp < t1.
TradesInWindow(table, symbol, t0, t1) ==
    { r \in table : r.symbol = symbol /\ t0 <= r.timestamp
                                      /\ r.timestamp < t1 }

Range(seq) == { seq[i] : i \in DOMAIN seq }

\* C13: on every content the trades table takes, for every symbol and bounds
\* t0, t1 the window query returns the prices of the stored trades of that
\* symbol with t0 <= timestamp < t1, each once, in strictly ascending order;
\* the aggregation cron hands exactly that list for [now - period, now) to
\* insertUniquePriceWindow, and a committed call adds one row per price of
\* its list, all of its window.
C13_WindowExtraction ==
    [][/\ trades' # trades =>
          \A s \in Symbols : \A t0 \in 0..MaxTime : \A t1 \in 0..MaxTime :
             LET res == GetUniquePricesInWindow(trades', s, t0, t1)
             IN  /\ \A i \in DOMAIN res : \A j \in DOMAIN res :
                        i < j => res[i] < res[j]
                 /\ Range(res) =
                      { r.price : r \in TradesInWindow(trades', s, t0, t1) }
       /\ \A w \in wins' \ wins :
             now' = now + 1
                => /\ w.window_end = now'
                   /\ w.window_start = now' - WindowLength
                   /\ Range(w.prices) =
                        { r.price : r \in TradesInWindow(trades, Symbol,
                                        w.window_start, w.window_end) }
       /\ ret'.op = "insertUniquePriceWindow" /\ ret'.outcome = "ok"
          /\ ret'.n > 0
             => \E w \in wins \ wins' :
                   /\ Cardinality(rows' \ rows) = Len(w.prices)
                   /\ { r.price : r \in rows' \ rows } = Range(w.prices)
                   /\ \A r \in rows' \ rows :
                         /\ r.window_start = w.window_start
                         /\ r.symbol = w.symbol]_vars

\* A window was committed with two rows while the store holds two trades of
\* the symbol in that window, with different prices.
C13_Witness ==
    /\ ret = Returned("insertUniquePriceWindow", "ok", 2)
    /\ \E r \in rows : \E q \in rows :
          /\ r.window_start = q.window_start
          /\ r.id < q.id /\ r.price < q.price
          /\ { x.price : x \in TradesInWindow(trades, Symbol, r.window_start,
                                   r.window_start + WindowLength) }
                = {r.price, q.price}

\* C14: a call of insertUniquePriceWindow that has taken a connection ends
\* in one of two ways: it returns and the table has gained exactly one row
\* per price of its list, or it throws and the table is as it was before,
\* however many rows had been inserted when the failure came.
C14_WindowInsertAllOrNothing ==
    [][\A w \in wins \ wins' :
          \/ /\ ret' = Returned("insertUniquePriceWindow", "ok",
                                Len(w.prices))
             /\ rows \subseteq rows'
             /\ Cardinality(rows' \ rows) = Len(w.prices)
             /\ \A r \in rows' \ rows : KeyOf(r) = KeyOf(w)
          \/ /\ ret' = Returned("insertUniquePriceWindow", "threw", 0)
             /\ rows' = rows]_vars

\* A call has failed after at least one INSERT (the sequence has moved on)
\* and the table is empty; nothing can have been swept yet.
C14_Witness ==
    /\ ret = Returned("insertUniquePriceWindow", "threw", 0)
    /\ nextId > 1
    /\ rows = {}
    /\ now <= CleanupMinutes

\* C15: an aggregation tick whose window holds no trade of the symbol writes
\* no row, takes no connection and throws nothing; a call of
\* insertUniquePriceWindow with an empty list returns without taking a
\* connection or changing the table, and no connection is ever held for an
\* empty list.
C15_EmptyWindowWritesNothing ==
    [][/\ (/\ now' = now + 1
           /\ TradesInWindow(trades, Symbol, now' - WindowLength, now') = {})
             => /\ rows' = rows
                /\ nextId' = nextId
                /\ wins' = wins
                /\ ret'.outcome # "threw"
       /\ InsertEmptyWindow
             => /\ wins' = wins
                /\ rows' = rows
                /\ ret' = Returned("insertUniquePriceWindow", "ok", 0)
       /\ \A w \in wins' : Len(w.prices) > 0]_vars

\* No trade was ever received, the cron has fired, and the last step was a
\* call with an empty list.
C15_Witness ==
    /\ ret = Returned("insertUniquePriceWindow", "ok", 0)
    /\ now >= 1
    /\ calls = 0
    /\ rows = {}
    /\ wins = {}
    /\ nextId = 1

\* C16: the trades table never holds two rows with one trade_id, a row
\* stays as it was first inserted whatever is inserted with its trade_id
\* afterwards, and an insert that meets its trade_id in the table returns
\* normally and leaves the table as it was.
C16_DuplicateTradeIgnored ==
    [][/\ \A r \in trades' : \A q \in trades' :
             r.trade_id = q.trade_id => r = q
       /\ \A r \in trades : \A q \in trades' :
             r.trade_id = q.trade_id => q = r
       /\ \A c \in inserts \ inserts' :
             (/\ ret'.op = "insertTrade" /\ ret'.outcome = "ok"
              /\ \E r \in trades : r.trade_id = c.trade.trade_id)
                => trades' = trades]_vars

\* The last step was an insert that returned normally at a time when the
\* only row of the table is older than the clock and nothing can have been
\* swept: the insert met its trade_id.
C16_Witness ==
    /\ ret.op = "insertTrade" /\ ret.outcome = "ok"
    /\ now = CleanupMinutes
    /\ calls = 2
    /\ inserts = {}
    /\ \E r \in trades : trades = {r} /\ r.created_at < now

\* C17: no insertTrade call makes more than MaxRetries attempts; the attempt
\* that succeeds ends the call; and when the last attempt fails the call
\* throws to its caller.
C17_InsertTradeRetries ==
    [][/\ \A c \in inserts' : c.attempt <= MaxRetries
       /\ ret'.op = "insertTrade" /\ ret'.outcome = "ok"
             => \E c \in inserts : /\ inserts' = inserts \ {c}
                                   /\ ret'.n = c.attempt
       /\ \A c \in inserts \ inserts' :
             c.attempt = MaxRetries /\ ret'.outcome # "ok"
                => /\ ret' = Returned("insertTrade", "threw", MaxRetries)
                   /\ trades' = trades]_vars

C17_Witness ==
    /\ ret = Returned("insertTrade", "threw", MaxRetries)
    /\ calls = 1
    /\ inserts = {}
    /\ trades = {}

\* C18: deleteOldTrades and deleteOldUniquePrices, run by the cleanup cron
\* with threshold CleanupMinutes, keep exactly the rows of their table with
\* created_at >= now - CleanupMinutes, with or without a transaction_hash,
\* and return the number of rows they removed.
C18_RetentionSweep ==
    [][/\ ret'.op = "deleteOldTrades"
             => /\ trades' = { r \in trades :
                                 r.created_at >= now - CleanupMinutes }
                /\ ret'.n = Cardinality(trades) - Cardinality(trades')
       /\ ret'.op = "deleteOldUniquePrices"
             => /\ rows' = { r \in rows :
                               r.created_at >= now - CleanupMinutes }
                /\ ret'.n = Cardinality(rows) - Cardinality(rows')]_vars

\* The sweep of unique_prices has just removed rows and kept others, among
\* them a row with a hash.
C18_Witness ==
    /\ ret.op = "deleteOldUniquePrices"
    /\ ret.n > 0
    /\ Hashed(rows) # {}
    /\ \A r \in rows : r.created_at >= now - CleanupMinutes

\* Two groups are the same submission: symbol, window_start and price list.
SameGroup(g, h) ==
    /\ g.symbol = h.symbol
    /\ g.window_start = h.window_start
    /\ g.prices = h.prices

\* The groups a checkAndUpdate invocation would build from a table and a
\* cursor.
GroupsFound(table, cursor) == PricesByWindow(SelectBatch(table, cursor))

\* The rows of the groups are what a query with this cursor meets first:
\* all of them lie beyond the cursor, and no row beyond the cursor belongs
\* to a window before the first group's.
StillUnsubmitted(groups, table, cursor) ==
    /\ \A i \in DOMAIN groups : \A id \in groups[i].ids : id > cursor
    /\ \A r \in table :
          r.id > cursor => r.window_start >= Head(groups).window_start

\* C19: in a step in which updateContract returns false for the head of the
\* groups of an invocation while the rows of those groups are still what a
\* query meets first, the groups that an invocation starting in the new
\* state builds contain the failed group and every group that was still
\* to come, each with the same symbol, window_start and price list, in the
\* same relative order.
C19_FailedGroupRetriedIdentically ==
    [][\A t \in Slots :
          /\ ev'.result \in Failures
          /\ restarts' = restarts
          /\ Active(t)
          /\ ticks'[t] = Idle
          /\ StillUnsubmitted(ticks[t].groups, rows', lastProcessedId')
          => LET failed == ticks[t].groups
                 found == GroupsFound(rows', lastProcessedId')
                 At(g) == CHOOSE j \in DOMAIN found : SameGroup(found[j], g)
             IN  /\ \A i \in DOMAIN failed : \E j \in DOMAIN found :
                        SameGroup(found[j], failed[i])
                 /\ \A i \in DOMAIN failed : \A k \in DOMAIN failed :
                        i < k => At(failed[i]) < At(failed[k])]_vars

Submitting == { t \in Slots : ticks[t].pc \in {"simulate", "send", "poll",
                                               "record"} }

\* C22: at any moment at most one updateContract call is in progress: no
\* call is begun before the previous one has returned.
C22_OneSubmissionInProgress == Cardinality(Submitting) <= 1

\* C27: a row that carries transaction hash h was one of the rows whose
\* prices made up the transaction with hash h.
C27_HashOnlyOnSubmittedRows ==
    \A r \in rows :
        r.transaction_hash # Null
           => \E x \in sentTxs : /\ x.hash = r.transaction_hash
                                 /\ r.id \in x.ids

\* C28: in the step that ends an invocation of checkAndUpdate with the
\* success of its last group (every group before it has succeeded, or the
\* loop would have been left), the cursor is at least the id of every row
\* of the batch the invocation had read.
C28_CursorCoversBatch ==
    [][\A t \in Slots :
          /\ ticks[t].pc = "record"
          /\ ticks'[t] = Idle
          /\ ev'.result = "true"
          /\ restarts' = restarts
          => lastProcessedId' >= ticks[t].batchMax]_vars

\* The positions of batch that hold a row with the given key, in batch order.
RowsOfKey(b, key) == SelectSeq(b, LAMBDA r : KeyOf(r) = key)

\* The first position of batch that holds a row of the group.
FirstRow(b, g) == CHOOSE i \in DOMAIN b :
                     /\ KeyOf(b[i]) = KeyOf(g)
                     /\ \A j \in 1..(i - 1) : KeyOf(b[j]) # KeyOf(g)

\* C23: the grouping partitions the polled batch: every row is in exactly one
\* group, the group of its (symbol, window_start) key, and no group is empty
\* or holds a row that is not of the batch; the groups are in the order of
\* their first rows in the batch; the price list of a group is the prices of
\* its rows in batch order; and maxId is the largest id among its rows.
C23_GroupingPartitionsBatch ==
    pricesByWindow # <<>> =>
        LET G == pricesByWindow
        IN  /\ \A i \in DOMAIN resultRows :
                  /\ Cardinality({ g \in DOMAIN G : resultRows[i].id \in G[g].ids }) = 1
                  /\ \A g \in DOMAIN G :
                        resultRows[i].id \in G[g].ids <=> KeyOf(G[g]) = KeyOf(resultRows[i])
            /\ \A g \in DOMAIN G :
                  LET mine == RowsOfKey(resultRows, KeyOf(G[g]))
                  IN  /\ mine # <<>>
                      /\ G[g].ids = { mine[i].id : i \in DOMAIN mine }
                      /\ G[g].prices = [i \in DOMAIN mine |-> mine[i].price]
                      /\ G[g].maxId = MaxOf({ mine[i].id : i \in DOMAIN mine })
            /\ \A g, h \in DOMAIN G :
                  g < h => FirstRow(resultRows, G[g]) < FirstRow(resultRows, G[h])

\* The loop has grouped a batch of three rows of two keys, in which the rows
\* of the first key are not adjacent in the table's id order and carry
\* different prices.
C23_Witness ==
    /\ pricesByWindow # <<>>
    /\ Len(resultRows) = 3
    /\ Len(pricesByWindow) = 2
    /\ \E g \in DOMAIN pricesByWindow :
          /\ Len(pricesByWindow[g].prices) = 2
          /\ pricesByWindow[g].prices[1] # pricesByWindow[g].prices[2]
          /\ pricesByWindow[g].maxId = 3
          /\ 1 \in pricesByWindow[g].ids

\* C21: whenever a socket of the client emits close while stop() has not been
\* called, the close handler sets exactly one timer, with the fixed delay of
\* 5000 ms, whose callback makes the next connection attempt; and a pending
\* timer is always eventually followed by a new connection attempt.
C21_CloseSchedulesReconnect ==
    /\ [][\A i \in DOMAIN sockets :
             (/\ sockets[i] # "closed"
              /\ sockets'[i] = "closed"
              /\ shouldReconnect)
             => timers' = Append(timers, ReconnectInterval)]_vars
    /\ \A n \in 0..MaxSockets :
          (timers # <<>> /\ Len(sockets) = n) ~> (Len(sockets) > n)

\* The first socket was lost while stop() had not been called, and the timer
\* has made the second one.
C21_Witness ==
    /\ shouldReconnect
    /\ Len(sockets) = 2
    /\ sockets[1] = "closed"
    /\ ws = 2
    /\ timers = <<>>

\* C25: once stop() has been called the client makes no new socket, also
\* when the socket had closed before stop() and a reconnect timer was pending.
C25_NoConnectAfterStop ==
    [][~shouldReconnect => Len(sockets') = Len(sockets)]_vars

\* C26: closeDatabase() is called at most once whatever signals arrive, and
\* no periodic callback issues a database call once it has been called.
C26_CloseOnceAfterQuiescence ==
    /\ closeCalls <= 1
    /\ lastOp.closeCalls = 0

\* The calls that hold a connection: checked out and not given back.
Holding == { o \in DOMAIN dbOps : dbOps[o].acquired = 1 /\ dbOps[o].released = 0 }

\* C24: every call that checked a connection out of the pool has released
\* it exactly once when it ends, on every way out (also when a row insert,
\* COMMIT or ROLLBACK throws), and never more than once; a call that got no
\* connection releases none; so the connections checked out are those of
\* the calls still running, and none is left when no call is running.
C24_ConnectionReleasedOnce ==
    /\ \A o \in DOMAIN dbOps :
          /\ dbOps[o].released <= dbOps[o].acquired
          /\ Ended(dbOps[o]) => dbOps[o].released = dbOps[o].acquired
    /\ checkedOut = Cardinality(Holding)
    /\ \A o \in Holding : ~Ended(dbOps[o])

\* Two insertUniquePriceWindow calls have ended by an exception after they
\* had checked a connection out, one of them with rows still to insert, a
\* third call has committed and returned, and no connection is checked out.
C24_Witness ==
    /\ Len(dbOps) >= 5
    /\ \A o \in 3..4 :
          /\ dbOps[o].pc = "threw"
          /\ dbOps[o].acquired = 1
    /\ dbOps[3].left > 0
    /\ dbOps[5].pc = "returned"
    /\ dbOps[5].acquired = 1
    /\ checkedOut = 0

\* C29: a call of broadcast() builds and sends a message only for a trade
\* whose price differs from the last broadcast price or whose second differs
\* from the last broadcast second; a suppressed trade sends nothing and
\* leaves both fields unchanged; after a broadcast both fields are the
\* trade's price and second; and any two messages broadcast one after the
\* other differ in price or in second.
C29_BroadcastOnChange ==
    [][bcast' # bcast =>
          LET trade == bcast'.trade
          IN  /\ bcast'.sent =>
                    /\ \/ trade.price # lastBroadcastPrice
                       \/ SecondOf(trade.timestamp) # lastBroadcastSecond
                    /\ lastBroadcastPrice' = trade.price
                    /\ lastBroadcastSecond' = SecondOf(trade.timestamp)
                    /\ messages'[Len(messages')] =
                          [timestamp |-> trade.timestamp, price |-> trade.price]
              /\ ~bcast'.sent =>
                    /\ bcast'.successCount = 0
                    /\ messages' = messages
                    /\ lastBroadcastPrice' = lastBroadcastPrice
                    /\ lastBroadcastSecond' = lastBroadcastSecond
              /\ Len(messages') = 2 =>
                    \/ messages'[1].price # messages'[2].price
                    \/ SecondOf(messages'[1].timestamp)
                          # SecondOf(messages'[2].timestamp)]_vars

\* Two messages of the same price have been broadcast, in different seconds,
\* and then, with a client connected, a trade of that price in the second
\* of the last message, at another millisecond, was suppressed.
C29_Witness ==
    /\ Len(messages) = 2
    /\ messages[1].price = messages[2].price
    /\ ~bcast.sent
    /\ bcast.trade.price = lastBroadcastPrice
    /\ bcast.trade.timestamp # messages[2].timestamp
    /\ SecondOf(bcast.trade.timestamp) = lastBroadcastSecond
    /\ \E c \in DOMAIN clients : clients[c] = "open"
====
